---- MODULE Spec2Model ----
(***************************************************************************)
(* A model of artifactory_cleanup/loaders.py: the rule registry, the       *)
(* schema synthesized from the registry, the YAML loader that validates a  *)
(* document against it and builds the policies, and the connection triple  *)
(* of the python loader.                                                   *)
(*                                                                         *)
(* Every call is one action.  A call leaves its outcome (return value,     *)
(* exception or exit, the constructors it invoked, what it printed) in the *)
(* variables below; the caller's next call starts from a cleared outcome.  *)
(***************************************************************************)
EXTENDS Naturals, Sequences, FiniteSets, TLC

VARIABLES
    rules,        \* registry.rules: the dict name -> rule type, in insertion order
    imported,     \* the module body (lines 130-131) has run
    addedLater,   \* names first inserted by a register call made after a load
    loaded,       \* some load of a document has been made
    op,           \* the call whose outcome is held: "none" when there is none
    args,         \* the arguments of that call
    before,       \* registry.rules as it was when the call began
    status,       \* "none" | "returned" | "raised" | "exit"
    retval,       \* the value returned (NoValue when nothing was returned)
    constructed,  \* the rule constructors the call invoked, in order
    stdout,       \* the lines the call printed
    logged,       \* the warnings the call logged
    helped,       \* the number of cli.help() calls the call made
    exitCode      \* the exit status of a call that ended the process

vars == <<rules, imported, addedLater, loaded, op, args, before, status, retval,
          constructed, stdout, logged, helped, exitCode>>

\* The largest number of rule entries (and of policies) in a document.
MaxEntries == 2

(***************************************************************************)
(* Values of a document and of the command line: a tag and the text.       *)
(***************************************************************************)
S(x) == [t |-> "str", v |-> x]
I(x) == [t |-> "int", v |-> x]
None == [t |-> "none", v |-> ""]

\* Python truthiness of a scalar: None, "" and 0 are falsy.
Truthy(x) ==
    /\ x.t # "none"
    /\ (x.t = "str" => x.v # "")
    /\ (x.t = "int" => x.v # "0")

NoValue == [kind |-> "nothing"]
NoArgs == [kind |-> "nothing"]

(***************************************************************************)
(* Rule types.  A rule type has an identity (cls), a name() (its class     *)
(* name), a schema attribute (None unless overridden) and the parameters   *)
(* of its constructor.                                                     *)
(***************************************************************************)
NoSchema == [set |-> FALSE, items |-> <<>>]
Param(n, a) == [name |-> n, annotation |-> a, hasDefault |-> FALSE, default |-> None]
ParamDefault(n, a, d) == [name |-> n, annotation |-> a, hasDefault |-> TRUE, default |-> d]

\* rules.Repo: accepts an entry with no field of its own and inserts none.
Repo ==
    [cls |-> "rules.Repo", name |-> "Repo",
     schema |-> [set |-> TRUE, items |-> <<>>],
     params |-> <<Param("self", "empty"), Param("name", "str")>>]

DeleteOlderThan ==
    [cls |-> "rules.DeleteOlderThan", name |-> "DeleteOlderThan",
     schema |-> NoSchema,
     params |-> <<Param("self", "empty"), Param("days", "int")>>]

KeepLatestNFiles ==
    [cls |-> "rules.KeepLatestNFiles", name |-> "KeepLatestNFiles",
     schema |-> NoSchema,
     params |-> <<Param("self", "empty"), ParamDefault("count", "int", I("1"))>>]

\* A user's rule type with the class name of a built-in one; its parameter is
\* not annotated.
MyKeep ==
    [cls |-> "custom.KeepLatestNFiles", name |-> "KeepLatestNFiles",
     schema |-> NoSchema,
     params |-> <<Param("self", "empty"), ParamDefault("count", "empty", I("5"))>>]

\* A user's rule type with a name of its own, taking **kwargs.
Custom ==
    [cls |-> "custom.Custom", name |-> "Custom",
     schema |-> NoSchema,
     params |-> <<Param("self", "empty"), Param("path", "str"),
                  Param("kwargs", "empty")>>]

\* vars(rules): the classes of the rules package, in module order.
BuiltinRules == <<Repo, DeleteOlderThan, KeepLatestNFiles>>

\* The rule types a caller registers by hand.
UserRules == {MyKeep, Custom}

\* The name argument of register: None, or a name.
NameOverrides == {None, S(""), S("Custom")}

(***************************************************************************)
(* RuleRegistry                                                            *)
(***************************************************************************)
Range(s) == {s[i] : i \in 1..Len(s)}

Keys(d) == [i \in 1..Len(d) |-> d[i].name]

Has(d, name) == \E i \in 1..Len(d) : d[i].name = name

\* RuleRegistry.get: self.rules[name]
Get(d, name) == d[CHOOSE i \in 1..Len(d) : d[i].name = name].rule

\* self.rules[name] = rule: a present key keeps its place in the dict.
Put(d, name, rule) ==
    IF Has(d, name)
    THEN [i \in 1..Len(d) |-> IF d[i].name = name THEN [name |-> name, rule |-> rule] ELSE d[i]]
    ELSE Append(d, [name |-> name, rule |-> rule])

\* name = name or rule.name()
RegisteredName(rule, name) == IF Truthy(name) THEN name.v ELSE rule.name

\* The guard with the warning flag not consulted.
ConflictIgnoringWarning(d, name, warning) == Has(d, name)

\* The guard with the warning flag inverted.
ConflictInverted(d, name, warning) == Has(d, name) /\ ~warning

\* The guard of register's early return.
Conflict(d, name, warning) == Has(d, name) /\ warning

\* RuleRegistry.register: the registry after the call.
register(d, rule, name, warning) ==
    LET n == RegisteredName(rule, name)
    IN  IF Conflict(d, n, warning) THEN d ELSE Put(d, n, rule)

RegisterWarnings(d, rule, name, warning) ==
    LET n == RegisteredName(rule, name)
    IN  IF Conflict(d, n, warning) THEN <<n>> ELSE <<>>

RECURSIVE RegisterAll(_, _, _)
RegisterAll(d, classes, i) ==
    IF i > Len(classes) THEN d
    ELSE RegisterAll(register(d, classes[i], None, FALSE), classes, i + 1)

\* RuleRegistry.register_builtin_rules
register_builtin_rules(d) == RegisterAll(d, BuiltinRules, 1)

(***************************************************************************)
(* SchemaBuilder.  A schema is the items of each of its four maps; an item *)
(* is a cfgv Required, RequiredRecurse, Conditional or ConditionalOptional.*)
(***************************************************************************)
check_string == [fn |-> "check_string", of |-> <<>>]
check_int == [fn |-> "check_int", of |-> <<>>]
check_any == [fn |-> "check_any", of |-> <<>>]
check_one_of(possible) == [fn |-> "check_one_of", of |-> possible]

_get_check_fn(annotation) ==
    IF annotation = "int" THEN check_int
    ELSE IF annotation = "str" THEN check_string
    ELSE check_any

Required(key, check_fn) ==
    [kind |-> "Required", key |-> key, check_fn |-> check_fn, default |-> None,
     condition_key |-> "", condition_value |-> "", ensure_absent |-> FALSE,
     schema |-> "", array |-> FALSE]

RequiredRecurse(key, schema, array) ==
    [kind |-> "RequiredRecurse", key |-> key, check_fn |-> check_any, default |-> None,
     condition_key |-> "", condition_value |-> "", ensure_absent |-> FALSE,
     schema |-> schema, array |-> array]

Conditional(key, check_fn, condition_key, condition_value, ensure_absent) ==
    [kind |-> "Conditional", key |-> key, check_fn |-> check_fn, default |-> None,
     condition_key |-> condition_key, condition_value |-> condition_value,
     ensure_absent |-> ensure_absent, schema |-> "", array |-> FALSE]

ConditionalOptional(key, check_fn, default, condition_key, condition_value, ensure_absent) ==
    [kind |-> "ConditionalOptional", key |-> key, check_fn |-> check_fn,
     default |-> default, condition_key |-> condition_key,
     condition_value |-> condition_value, ensure_absent |-> ensure_absent,
     schema |-> "", array |-> FALSE]

\* The parameters _get_rule_conditionals skips.
Ignore == {"self", "args", "kwargs"}

\* The descriptor with every parameter taken to have a default.
ParamConditionalOptional(name, param) ==
    LET check_fn == IF param.annotation = "empty" THEN check_any
                    ELSE _get_check_fn(param.annotation)
    IN  ConditionalOptional(param.name, check_fn, param.default, "rule", name, FALSE)

\* The descriptor of one constructor parameter (the body of the loop).
ParamConditional(name, param) ==
    LET check_fn == IF param.annotation = "empty" THEN check_any
                    ELSE _get_check_fn(param.annotation)
    IN  IF param.hasDefault
        THEN ConditionalOptional(param.name, check_fn, param.default, "rule", name, FALSE)
        ELSE Conditional(param.name, check_fn, "rule", name, FALSE)

RECURSIVE ParamConditionals(_, _, _)
ParamConditionals(name, params, i) ==
    IF i > Len(params) THEN <<>>
    ELSE IF params[i].name \in Ignore THEN ParamConditionals(name, params, i + 1)
    ELSE <<ParamConditional(name, params[i])>> \o ParamConditionals(name, params, i + 1)

_get_rule_conditionals(name, rule) ==
    IF rule.schema.set THEN rule.schema.items
    ELSE ParamConditionals(name, rule.params, 1)

RECURSIVE RulesConditionals(_, _)
RulesConditionals(d, i) ==
    IF i > Len(d) THEN <<>>
    ELSE _get_rule_conditionals(d[i].name, d[i].rule) \o RulesConditionals(d, i + 1)

get_rules_conditionals(d) == RulesConditionals(d, 1)

\* The discriminant items with the names taken once, when the module was loaded.
RuleNameItemsAtImport(d) ==
    <<Required("rule", check_string),
      Required("rule", check_one_of(Keys(register_builtin_rules(<<>>))))>>

\* The discriminant items of the rule map.
RuleNameItems(d) ==
    <<Required("rule", check_string), Required("rule", check_one_of(Keys(d)))>>

get_root_schema(d) ==
    [Rule |-> RuleNameItems(d) \o get_rules_conditionals(d),
     Policy |-> <<Required("name", check_string),
                  RequiredRecurse("rules", "Rule", TRUE)>>,
     Config |-> <<Required("server", check_string),
                  Required("user", check_string),
                  Required("password", check_string),
                  RequiredRecurse("policies", "Policy", TRUE)>>,
     Root |-> <<RequiredRecurse("artifactory-cleanup", "Config", FALSE)>>]

(***************************************************************************)
(* cfgv: validate and apply_defaults.                                      *)
(***************************************************************************)
NoError == [error |-> "none", key |-> ""]
Error(e, k) == [error |-> e, key |-> k]

\* A check function applied to a scalar.
CheckFn(check_fn, val) ==
    CASE check_fn.fn = "check_string" -> val.t = "str"
      [] check_fn.fn = "check_int" -> val.t = "int"
      [] check_fn.fn = "check_one_of" -> val.t = "str" /\ val.v \in Range(check_fn.of)
      [] OTHER -> TRUE

\* dct.get(condition_key, MISSING) == In(name)
ConditionHolds(item, dct) ==
    /\ item.condition_key \in DOMAIN dct
    /\ dct[item.condition_key] = S(item.condition_value)

RECURSIVE MapError(_, _, _), ItemError(_, _, _), ItemsError(_, _, _, _), ArrayError(_, _, _, _)

\* _check_optional, and _check_required when required.
CheckKey(schema, item, dct, required) ==
    IF item.key \notin DOMAIN dct
    THEN IF required THEN Error("missing", item.key) ELSE NoError
    ELSE IF item.kind = "RequiredRecurse"
         THEN IF item.array THEN ArrayError(schema, item.schema, dct[item.key], 1)
              ELSE MapError(schema, item.schema, dct[item.key])
         ELSE IF CheckFn(item.check_fn, dct[item.key]) THEN NoError
              ELSE Error("type", item.key)

\* item.check(dct)
ItemError(schema, item, dct) ==
    IF item.kind \in {"Required", "RequiredRecurse"}
    THEN CheckKey(schema, item, dct, TRUE)
    ELSE IF ConditionHolds(item, dct)
         THEN CheckKey(schema, item, dct, item.kind = "Conditional")
         ELSE IF /\ item.condition_key \in DOMAIN dct
                 /\ item.ensure_absent
                 /\ item.key \in DOMAIN dct
              THEN Error("absent", item.key)
              ELSE NoError

ItemsError(schema, items, dct, i) ==
    IF i > Len(items) THEN NoError
    ELSE LET e == ItemError(schema, items[i], dct)
         IN  IF e # NoError THEN e ELSE ItemsError(schema, items, dct, i + 1)

\* Map.check: the first item that fails.
MapError(schema, map, dct) == ItemsError(schema, schema[map], dct, 1)

\* Array.check looking at the first element only.
ArrayErrorFirstOnly(schema, map, arr, i) ==
    IF Len(arr) = 0 THEN NoError ELSE MapError(schema, map, arr[1])

\* Array.check: the first element that fails.
ArrayError(schema, map, arr, i) ==
    IF i > Len(arr) THEN NoError
    ELSE LET e == MapError(schema, map, arr[i])
         IN  IF e # NoError THEN e ELSE ArrayError(schema, map, arr, i + 1)

\* cfgv.validate(data, schema)
validate(data, schema) == MapError(schema, "Root", data)

\* dct.setdefault(key, default)
SetDefault(dct, key, default) ==
    IF key \in DOMAIN dct THEN dct ELSE dct @@ (key :> default)

RECURSIVE MapDefaults(_, _, _), ItemsDefaults(_, _, _, _)

\* apply_default with the default of a conditional item set whatever the
\* discriminant is.
ItemDefaultUngated(schema, item, dct) ==
    CASE item.kind = "RequiredRecurse" ->
            [dct EXCEPT ![item.key] =
                IF item.array
                THEN [j \in 1..Len(dct[item.key]) |->
                        MapDefaults(schema, item.schema, dct[item.key][j])]
                ELSE MapDefaults(schema, item.schema, dct[item.key])]
      [] item.kind = "ConditionalOptional" -> SetDefault(dct, item.key, item.default)
      [] OTHER -> dct

\* item.apply_default(dct)
ItemDefault(schema, item, dct) ==
    CASE item.kind = "RequiredRecurse" ->
            [dct EXCEPT ![item.key] =
                IF item.array
                THEN [j \in 1..Len(dct[item.key]) |->
                        MapDefaults(schema, item.schema, dct[item.key][j])]
                ELSE MapDefaults(schema, item.schema, dct[item.key])]
      [] item.kind = "ConditionalOptional" ->
            IF ConditionHolds(item, dct)
            THEN SetDefault(dct, item.key, item.default)
            ELSE dct
      [] OTHER -> dct

ItemsDefaults(schema, items, dct, i) ==
    IF i > Len(items) THEN dct
    ELSE ItemsDefaults(schema, items, ItemDefault(schema, items[i], dct), i + 1)

\* Map.apply_defaults
MapDefaults(schema, map, dct) == ItemsDefaults(schema, schema[map], dct, 1)

\* cfgv.apply_defaults(data, schema)
apply_defaults(data, schema) == MapDefaults(schema, "Root", data)

(***************************************************************************)
(* Calling a rule type with the keyword arguments kwargs.                   *)
(***************************************************************************)
ParamNames(cls) == {cls.params[i].name : i \in 1..Len(cls.params)} \ {"self"}

\* The parameters a call must bind: no default, not variadic.
NeededNames(cls) ==
    {cls.params[i].name : i \in {j \in 1..Len(cls.params) : ~cls.params[j].hasDefault}}
        \ {"self", "args", "kwargs"}

DefaultOf(cls, k) == cls.params[CHOOSE i \in 1..Len(cls.params) : cls.params[i].name = k].default

\* The constructor's own rejection of its arguments.
Rejects(cls, kwargs) ==
    \/ cls.cls = "rules.DeleteOlderThan" /\ kwargs["days"] = I("0")
    \/ cls.cls = "rules.Repo" /\ kwargs["name"] = S("")

\* An unexpected keyword or a missing argument is a TypeError; the body may
\* raise as well.  Otherwise the instance holds its bound arguments.
Construct(cls, kwargs) ==
    IF /\ "kwargs" \notin ParamNames(cls)
       /\ ~(DOMAIN kwargs \subseteq ParamNames(cls))
    THEN [raised |-> TRUE, exc |-> "TypeError: unexpected keyword argument", rule |-> NoValue]
    ELSE IF ~(NeededNames(cls) \subseteq DOMAIN kwargs)
    THEN [raised |-> TRUE, exc |-> "TypeError: missing required argument", rule |-> NoValue]
    ELSE IF Rejects(cls, kwargs)
    THEN [raised |-> TRUE, exc |-> "Exception: bad value", rule |-> NoValue]
    ELSE [raised |-> FALSE, exc |-> "",
          rule |-> [kind |-> "instance", cls |-> cls.cls,
                    args |-> [k \in DOMAIN kwargs \cup
                                    ((ParamNames(cls) \ NeededNames(cls)) \ {"args", "kwargs"}) |->
                                IF k \in DOMAIN kwargs THEN kwargs[k] ELSE DefaultOf(cls, k)]]]

\* A rule type standing in the rules of a policy, not yet constructed.
Deferred(cls) == [kind |-> "class", cls |-> cls.cls, args |-> <<>>]

\* CleanupPolicy(policy_name, *rules)
CleanupPolicy(name, rs) == [name |-> name, rules |-> rs]

(***************************************************************************)
(* YamlConfigLoader                                                        *)
(***************************************************************************)
\* kwargs = deepcopy(rule_data); kwargs.pop("rule")
Kwargs(rule_data) == [k \in DOMAIN rule_data \ {"rule"} |-> rule_data[k]]

\* The test with the emptiness of the arguments inverted.
IsDeferredRepoWithArgs(rule_cls, kwargs) == rule_cls = Repo /\ DOMAIN kwargs # {}

\* The test of the repository rule left for the policy to construct.
IsDeferredRepo(rule_cls, kwargs) == rule_cls = Repo /\ DOMAIN kwargs = {}

\* _build_rule: the rule, or the exception, and the constructor call made.
_build_rule(d, rule_data) ==
    IF "rule" \notin DOMAIN rule_data \/ ~Has(d, rule_data["rule"].v)
    THEN [raised |-> TRUE, exc |-> "KeyError", rule |-> NoValue, invoked |-> <<>>]
    ELSE LET kwargs == Kwargs(rule_data)
             rule_cls == Get(d, rule_data["rule"].v)
         IN  IF IsDeferredRepo(rule_cls, kwargs)
             THEN [raised |-> FALSE, exc |-> "", rule |-> Deferred(rule_cls), invoked |-> <<>>]
             ELSE LET c == Construct(rule_cls, kwargs)
                  IN  c @@ [invoked |-> <<[cls |-> rule_cls.cls, kwargs |-> kwargs,
                                           raised |-> c.raised]>>]

\* The rule put at the front.
PrependRule(rs, rule) == <<rule>> \o rs

\* rules.append(rule)
AppendRule(rs, rule) == Append(rs, rule)

\* The except branch without its exit.
FailedWithoutExit(st, rule_data, policy_name, exc) ==
    [st EXCEPT !.stdout = @ \o <<[text |-> "Failed to initialize",
                                   rule |-> rule_data["rule"], policy |-> policy_name],
                                  [text |-> exc, rule |-> None, policy |-> None]>>]

\* The except branch: two lines printed, then sys.exit(1).
Failed(st, rule_data, policy_name, exc) ==
    [st EXCEPT !.stdout = @ \o <<[text |-> "Failed to initialize",
                                   rule |-> rule_data["rule"], policy |-> policy_name],
                                  [text |-> exc, rule |-> None, policy |-> None]>>,
               !.exited = TRUE]

\* An invocation, with the place in the document of the entry it was made for.
At(invoked, i, j) ==
    [k \in 1..Len(invoked) |-> invoked[k] @@ [policy |-> i, entry |-> j]]

RECURSIVE BuildRules(_, _, _, _, _)
\* The inner loop of get_policies over the rules of policy pi.
BuildRules(d, policy_data, pi, i, st) ==
    IF i > Len(policy_data["rules"]) THEN st
    ELSE LET rule_data == policy_data["rules"][i]
             r == _build_rule(d, rule_data)
             st1 == [st EXCEPT !.constructed = @ \o At(r.invoked, pi, i)]
         IN  IF r.raised
             THEN Failed(st1, rule_data, policy_data["name"], r.exc)
             ELSE BuildRules(d, policy_data, pi, i + 1,
                             [st1 EXCEPT !.rules = AppendRule(@, r.rule)])

RECURSIVE BuildPolicies(_, _, _, _)
\* The outer loop of get_policies.
BuildPolicies(d, policies_data, i, st) ==
    IF i > Len(policies_data) THEN st
    ELSE LET b == BuildRules(d, policies_data[i], i, 1,
                             [st EXCEPT !.rules = <<>>])
         IN  IF b.exited THEN b
             ELSE BuildPolicies(d, policies_data, i + 1,
                    [b EXCEPT !.policies =
                        Append(@, CleanupPolicy(policies_data[i]["name"], b.rules))])

\* YamlConfigLoader.load: the schema is built from the registry at each call.
load(d, doc) ==
    LET schema == get_root_schema(d)
        e == validate(doc, schema)
    IN  IF e # NoError THEN [error |-> e, config |-> NoValue]
        ELSE [error |-> NoError, config |-> apply_defaults(doc, schema)]

\* YamlConfigLoader.get_policies: the outcome of the call.
get_policies(d, doc) ==
    LET l == load(d, doc)
        st0 == [policies |-> <<>>, rules |-> <<>>, constructed |-> <<>>,
                stdout |-> <<>>, exited |-> FALSE]
    IN  IF l.error # NoError
        THEN [status |-> "raised", retval |-> NoValue, constructed |-> <<>>,
              stdout |-> <<>>, error |-> l.error]
        ELSE LET st == BuildPolicies(d, l.config["artifactory-cleanup"]["policies"], 1, st0)
             IN  IF st.exited
                 THEN [status |-> "exit", retval |-> NoValue,
                       constructed |-> st.constructed, stdout |-> st.stdout,
                       error |-> NoError]
                 ELSE [status |-> "returned", retval |-> st.policies,
                       constructed |-> st.constructed, stdout |-> st.stdout,
                       error |-> NoError]

(***************************************************************************)
(* PythonLoader.get_connection                                             *)
(***************************************************************************)
\* The flags with the password not tested.
RequiredFlagsNoPassword == <<[field |-> "_artifactory_server", flag |-> "--artifactory-server"],
                             [field |-> "_user", flag |-> "--user"]>>

\* The flags in the order the code tests them, with the option each names.
RequiredFlags == <<[field |-> "_artifactory_server", flag |-> "--artifactory-server"],
                   [field |-> "_user", flag |-> "--user"],
                   [field |-> "_password", flag |-> "--password"]>>

RECURSIVE FirstMissing(_, _, _)
FirstMissing(cli, flags, i) ==
    IF i > Len(flags) THEN ""
    ELSE IF ~Truthy(cli[flags[i].field]) THEN flags[i].flag
    ELSE FirstMissing(cli, flags, i + 1)

get_connection(cli) ==
    LET missing == FirstMissing(cli, RequiredFlags, 1)
    IN  IF missing # ""
        THEN [status |-> "exit", retval |-> NoValue,
              stdout |-> <<[text |-> "is required for python config", flag |-> missing]>>,
              helped |-> 1, exitCode |-> 1]
        ELSE [status |-> "returned",
              retval |-> <<cli["_artifactory_server"], cli["_user"], cli["_password"]>>,
              stdout |-> <<>>, helped |-> 0, exitCode |-> 0]

(***************************************************************************)
(* The documents and command lines the calls are given.                    *)
(***************************************************************************)
\* The rule entries of the documents with several entries.
Entries ==
    {[rule |-> S("Repo")],
     [rule |-> S("DeleteOlderThan"), days |-> I("7")],
     [rule |-> S("DeleteOlderThan"), days |-> S("abc")],
     [rule |-> S("DeleteOlderThan"), days |-> I("0")],
     [rule |-> S("KeepLatestNFiles")],
     [rule |-> S("Custom"), path |-> S("p")]}

\* The rule entries of the documents with one entry only.
LoneEntries ==
    {[rule |-> S("Repo"), name |-> S("r")],
     [rule |-> S("DeleteOlderThan")],
     [rule |-> S("KeepLatestNFiles"), count |-> S("abc")],
     [rule |-> S("KeepLatestNFiles"), days |-> I("7")],
     [rule |-> S("Custom")],
     [rule |-> S("Custom"), path |-> I("7")],
     [rule |-> S("Unknown"), days |-> I("7")],
     [rule |-> I("5")],
     [days |-> I("7")]}

\* The lists of at most k rule entries.
RuleLists(k) == UNION {[1..n -> Entries] : n \in 0..k}

PolicyNames == <<"P1", "P3", "P2">>
PolicyName(i) == S(PolicyNames[((i - 1) % Len(PolicyNames)) + 1])

RECURSIVE PolicyLists(_, _, _)
\* The lists of p policies, named by their place from the i-th on, holding at
\* most k rule entries together.
PolicyLists(p, k, i) ==
    IF p = 0 THEN {<<>>}
    ELSE UNION {{<<[name |-> PolicyName(i), rules |-> rl]>> \o rest :
                    rest \in PolicyLists(p - 1, k - Len(rl), i + 1)} :
                rl \in RuleLists(k)}

Connection == [server |-> S("s"), user |-> S("u"), password |-> S("p")]

Document(top, policies) == "artifactory-cleanup" :> (top @@ [policies |-> policies])

\* Documents whose policies are well-formed maps, and a few whose top level or
\* policy is not.
Documents ==
    {Document(Connection, pl) :
        pl \in UNION {PolicyLists(p, MaxEntries, 1) : p \in 0..MaxEntries}}
    \cup {Document(Connection, <<[name |-> S("P1"), rules |-> <<e>>]>>) : e \in LoneEntries}
    \cup {Document(top, <<[name |-> S("P1"), rules |-> <<[rule |-> S("Repo")]>>]>>) :
            top \in {[user |-> S("u"), password |-> S("p")],
                     [server |-> S("s"), user |-> I("1"), password |-> S("p")]}}
    \cup {Document(Connection, <<pol>>) :
            pol \in {[rules |-> <<[rule |-> S("Repo")]>>],
                     [name |-> I("1"), rules |-> <<[rule |-> S("Repo")]>>]}}

FlagValues == {None, S(""), S("x"), S("y")}
CommandLines == [{"_artifactory_server", "_user", "_password"} -> FlagValues]

(***************************************************************************)
(* The calls.                                                              *)
(***************************************************************************)
Idle == op = "none"

NoOutcome ==
    /\ op' = "none"
    /\ args' = NoArgs
    /\ before' = <<>>
    /\ status' = "none"
    /\ retval' = NoValue
    /\ constructed' = <<>>
    /\ stdout' = <<>>
    /\ logged' = <<>>
    /\ helped' = 0
    /\ exitCode' = 0

Init ==
    /\ rules = <<>>
    /\ imported = FALSE
    /\ addedLater = {}
    /\ loaded = FALSE
    /\ op = "none"
    /\ args = NoArgs
    /\ before = <<>>
    /\ status = "none"
    /\ retval = NoValue
    /\ constructed = <<>>
    /\ stdout = <<>>
    /\ logged = <<>>
    /\ helped = 0
    /\ exitCode = 0

\* registry = RuleRegistry(); registry.register_builtin_rules()
Import ==
    /\ ~imported
    /\ imported' = TRUE
    /\ rules' = register_builtin_rules(rules)
    /\ UNCHANGED <<addedLater, loaded>>
    /\ NoOutcome

\* registry.register(rule, name, warning)
Register(rule, name, warning) ==
    /\ imported
    /\ Idle
    /\ rules' = register(rules, rule, name, warning)
    /\ addedLater' =
            IF loaded /\ ~Has(rules, RegisteredName(rule, name))
            THEN addedLater \cup {RegisteredName(rule, name)}
            ELSE addedLater
    /\ op' = "register"
    /\ args' = [rule |-> rule, name |-> name, warning |-> warning]
    /\ before' = rules
    /\ status' = "returned"
    /\ retval' = NoValue
    /\ logged' = RegisterWarnings(rules, rule, name, warning)
    /\ constructed' = <<>>
    /\ stdout' = <<>>
    /\ helped' = 0
    /\ exitCode' = 0
    /\ UNCHANGED <<imported, loaded>>

\* YamlConfigLoader(filepath).get_policies(), the file holding doc
GetPolicies(doc) ==
    /\ imported
    /\ Idle
    /\ LET out == get_policies(rules, doc)
       IN  /\ status' = out.status
           /\ retval' = out.retval
           /\ constructed' = out.constructed
           /\ stdout' = out.stdout
           /\ exitCode' = IF out.status = "exit" THEN 1 ELSE 0
    /\ op' = "get_policies"
    /\ args' = [doc |-> doc]
    /\ before' = rules
    /\ loaded' = TRUE
    /\ logged' = <<>>
    /\ helped' = 0
    /\ UNCHANGED <<rules, imported, addedLater>>

\* PythonLoader(filepath, cli).get_connection()
GetConnection(cli) ==
    /\ imported
    /\ Idle
    /\ LET out == get_connection(cli)
       IN  /\ status' = out.status
           /\ retval' = out.retval
           /\ stdout' = out.stdout
           /\ helped' = out.helped
           /\ exitCode' = out.exitCode
    /\ op' = "get_connection"
    /\ args' = [cli |-> cli]
    /\ before' = rules
    /\ constructed' = <<>>
    /\ logged' = <<>>
    /\ UNCHANGED <<rules, imported, addedLater, loaded>>

\* The caller goes on after a call that returned or raised; a call that
\* exited has ended the process.
Continue ==
    /\ status \in {"returned", "raised"}
    /\ NoOutcome
    /\ UNCHANGED <<rules, imported, addedLater, loaded>>

Next ==
    \/ Import
    \/ \E rule \in UserRules, name \in NameOverrides, warning \in BOOLEAN :
            Register(rule, name, warning)
    \/ \E doc \in Documents : GetPolicies(doc)
    \/ \E cli \in CommandLines : GetConnection(cli)
    \/ Continue

Spec == Init /\ [][Next]_vars

(***************************************************************************)
(* What the properties below speak of.                                     *)
(***************************************************************************)
IsRegister == op = "register"
IsGetPolicies == op = "get_policies"
IsGetConnection == op = "get_connection"

\* The name a register call registers under.
CallName == RegisteredName(args.rule, args.name)

\* The policies of the document of a get_policies call.
DocPolicies == args.doc["artifactory-cleanup"]["policies"]

\* The places <<policy, entry>> of the rule entries of the document.
Places == {<<i, j>> \in (1..Len(DocPolicies)) \X (1..MaxEntries) :
                j <= Len(DocPolicies[i]["rules"])}

EntryAt(pl) == DocPolicies[pl[1]]["rules"][pl[2]]

\* Document order of two places.
Earlier(a, b) == a[1] < b[1] \/ (a[1] = b[1] /\ a[2] < b[2])

PlaceOf(c) == <<c.policy, c.entry>>

\* The parameters the schema of a rule type is synthesized from.
SchemaParams(cls) == {cls.params[i] : i \in 1..Len(cls.params)} \ 
                        {q \in {cls.params[i] : i \in 1..Len(cls.params)} : q.name \in Ignore}

\* A value is of the type a parameter declares.
OfType(annotation, val) ==
    /\ (annotation = "int" => val.t = "int")
    /\ (annotation = "str" => val.t = "str")

\* What the documentation of the schema asks of one rule entry: a string
\* discriminant naming a registered rule type, every parameter without a
\* default present, and every parameter present of its declared type.
EntryValid(d, e) ==
    /\ "rule" \in DOMAIN e
    /\ e["rule"].t = "str"
    /\ Has(d, e["rule"].v)
    /\ LET cls == Get(d, e["rule"].v)
       IN  ~cls.schema.set =>
                \A q \in SchemaParams(cls) :
                    /\ (~q.hasDefault => q.name \in DOMAIN e)
                    /\ (q.name \in DOMAIN e => OfType(q.annotation, e[q.name]))

PolicyValid(d, pol) ==
    /\ "name" \in DOMAIN pol
    /\ pol["name"].t = "str"
    /\ \A j \in 1..Len(pol["rules"]) : EntryValid(d, pol["rules"][j])

DocValid(d, doc) ==
    LET c == doc["artifactory-cleanup"]
    IN  /\ \A k \in {"server", "user", "password"} : k \in DOMAIN c /\ c[k].t = "str"
        /\ \A i \in 1..Len(c["policies"]) : PolicyValid(d, c["policies"][i])

\* The verdict of the synthesized schema on one rule entry.
RuleError(d, e) == MapError(get_root_schema(d), "Rule", e)

\* A value of the declared type.
Sample(annotation) == IF annotation = "int" THEN I("7") ELSE S("p")

\* The entry with the discriminant and every parameter without a default.
MinimalEntry(name, cls) ==
    [k \in {"rule"} \cup NeededNames(cls) |->
        IF k = "rule" THEN S(name)
        ELSE Sample(cls.params[CHOOSE i \in 1..Len(cls.params) : cls.params[i].name = k].annotation)]

Without(e, k) == [x \in DOMAIN e \ {k} |-> e[x]]

\* The document with one policy holding the one entry e.
LoneDocument(e) == Document(Connection, <<[name |-> S("P1"), rules |-> <<e>>]>>)

\* The registered rule types whose schema is synthesized.
Synthesized(d) == {i \in 1..Len(d) : ~d[i].rule.schema.set}

(***************************************************************************)
(* C1                                                                      *)
(***************************************************************************)
\* C1, as stated: after register with warning=False for a name that is
\* already registered, the name still maps to the rule type registered first.
C1_FirstKeptWithoutWarning ==
    (IsRegister /\ ~args.warning /\ Has(before, CallName))
        => Get(rules, CallName) = Get(before, CallName)

\* C1, amended: register with warning=False for a name that is already
\* registered replaces the mapping: the name maps to the rule type of this
\* call, the names and their order are those of before, nothing is logged and
\* the call returns.
C1_LaterOverridesWithoutWarning ==
    (IsRegister /\ ~args.warning /\ Has(before, CallName))
        => /\ Get(rules, CallName) = args.rule
           /\ Keys(rules) = Keys(before)
           /\ \A n \in Range(Keys(before)) \ {CallName} : Get(rules, n) = Get(before, n)
           /\ logged = <<>>
           /\ status = "returned"

C1_Witness ==
    /\ IsRegister /\ ~args.warning /\ Has(before, CallName)
    /\ Get(before, CallName) # args.rule
    /\ Get(rules, CallName) = args.rule

(***************************************************************************)
(* C2                                                                      *)
(***************************************************************************)
\* C2: register with warning=True for a name that is already present leaves
\* the registry as it was: get(name) is the rule type registered first, the
\* number of names does not grow, a warning is logged and no error is raised.
C2_FirstKeptWithWarning ==
    (IsRegister /\ args.warning /\ Has(before, CallName))
        => /\ rules = before
           /\ Get(rules, CallName) = Get(before, CallName)
           /\ Len(rules) = Len(before)
           /\ logged = <<CallName>>
           /\ status = "returned"

C2_Witness ==
    /\ IsRegister /\ args.warning /\ Has(before, CallName)
    /\ Get(before, CallName) # args.rule
    /\ Get(rules, CallName) = Get(before, CallName)

(***************************************************************************)
(* C3                                                                      *)
(***************************************************************************)
\* C3: in get_policies, a rule constructor that raises is the last one
\* invoked: the call exits with status 1 after reporting the rule and the
\* policy, no entry later in the document has been constructed, and no list
\* of policies is returned.
C3_FailFast ==
    IsGetPolicies =>
        \A k \in 1..Len(constructed) :
            constructed[k].raised =>
                /\ k = Len(constructed)
                /\ status = "exit"
                /\ exitCode = 1
                /\ retval = NoValue
                /\ \A m \in 1..Len(constructed) :
                        ~Earlier(PlaceOf(constructed[k]), PlaceOf(constructed[m]))
                /\ Len(stdout) = 2
                /\ stdout[1].rule = EntryAt(PlaceOf(constructed[k]))["rule"]
                /\ stdout[1].policy = DocPolicies[constructed[k].policy]["name"]

\* A constructor raised with a rule after it in the same policy, or in a
\* later policy, that would have been built.
C3_Witness ==
    /\ IsGetPolicies /\ status = "exit"
    /\ Len(constructed) > 0
    /\ constructed[Len(constructed)].raised
    /\ \E pl \in Places :
            /\ Earlier(PlaceOf(constructed[Len(constructed)]), pl)
            /\ EntryAt(pl) = [rule |-> S("DeleteOlderThan"), days |-> I("7")]

(***************************************************************************)
(* C4                                                                      *)
(***************************************************************************)
\* C4: get_policies of a document any part of which is invalid raises the
\* configuration error with no rule constructor invoked, nothing printed and
\* no policy returned.
C4_NoPartialLoad ==
    (IsGetPolicies /\ ~DocValid(rules, args.doc))
        => /\ status = "raised"
           /\ constructed = <<>>
           /\ stdout = <<>>
           /\ retval = NoValue

\* The only invalid part is an integer field holding a string in the last
\* rule of the last policy, after a rule that could have been built.
C4_Witness ==
    /\ IsGetPolicies /\ status = "raised" /\ constructed = <<>>
    /\ Len(DocPolicies) > 0
    /\ LET last == DocPolicies[Len(DocPolicies)]["rules"]
       IN  /\ Len(last) > 0
           /\ last[Len(last)] = [rule |-> S("DeleteOlderThan"), days |-> S("abc")]
    /\ EntryAt(<<1, 1>>) = [rule |-> S("DeleteOlderThan"), days |-> I("7")]
    /\ Cardinality({pl \in Places : ~EntryValid(rules, EntryAt(pl))}) = 1

(***************************************************************************)
(* C5                                                                      *)
(***************************************************************************)
\* C5: at every load the discriminants validation accepts are the names in
\* the registry at that load: a load that passes validation has only
\* registered names as discriminants, an entry whose discriminant is not
\* registered is rejected, and every registered name is accepted in the
\* minimal entry of its rule type.
C5_DiscriminantsAreRegistry ==
    /\ (IsGetPolicies /\ status # "raised") =>
            \A pl \in Places :
                /\ "rule" \in DOMAIN EntryAt(pl)
                /\ EntryAt(pl)["rule"].t = "str"
                /\ EntryAt(pl)["rule"].v \in Range(Keys(rules))
    /\ imported =>
            \A e \in Entries \cup LoneEntries :
                ("rule" \in DOMAIN e /\ e["rule"].v \notin Range(Keys(rules)))
                    => RuleError(rules, e) # NoError
    /\ imported =>
            \A i \in 1..Len(rules) :
                RuleError(rules, MinimalEntry(rules[i].name, rules[i].rule)) = NoError
    /\ (IsGetPolicies /\ \E i \in 1..Len(rules) :
            args.doc = LoneDocument(MinimalEntry(rules[i].name, rules[i].rule)))
                => status # "raised"

\* A load accepts the discriminant of a rule type registered after an
\* earlier load.
C5_Witness ==
    /\ IsGetPolicies /\ status = "returned"
    /\ "Custom" \in addedLater
    /\ \E pl \in Places : EntryAt(pl)["rule"] = S("Custom")

(***************************************************************************)
(* C6                                                                      *)
(***************************************************************************)
\* C6: an entry that names Repo and has no other field is never given to a
\* constructor, and stands in the rules of its policy as the rule type
\* itself; the document with the one policy "P1" and the one rule
\* {rule: "Repo"} loads as one policy "P1" holding the Repo type.
C6_DeferredRepo ==
    IsGetPolicies =>
        /\ \A pl \in Places :
                EntryAt(pl) = [rule |-> S("Repo")] =>
                    /\ \A k \in 1..Len(constructed) : PlaceOf(constructed[k]) # pl
                    /\ status = "returned" => retval[pl[1]].rules[pl[2]] = Deferred(Repo)
        /\ args.doc = LoneDocument([rule |-> S("Repo")]) =>
                /\ status = "returned"
                /\ retval = <<CleanupPolicy(S("P1"), <<Deferred(Repo)>>)>>
                /\ constructed = <<>>

C6_Witness ==
    /\ IsGetPolicies /\ status = "returned"
    /\ args.doc = LoneDocument([rule |-> S("Repo")])
    /\ retval = <<CleanupPolicy(S("P1"), <<Deferred(Repo)>>)>>

(***************************************************************************)
(* C7                                                                      *)
(***************************************************************************)
\* C7: for every registered rule type whose schema is synthesized, the entry
\* with the discriminant and every parameter without a default, of the
\* declared type, passes validation, and the entry with any one of those
\* parameters removed is rejected; so do the loads of the documents holding
\* these entries.
C7_RequiredFields ==
    \A i \in Synthesized(rules) :
        LET e == MinimalEntry(rules[i].name, rules[i].rule)
        IN  /\ RuleError(rules, e) = NoError
            /\ \A k \in DOMAIN e \ {"rule"} :
                    RuleError(rules, Without(e, k)) = Error("missing", k)
            /\ (IsGetPolicies /\ args.doc = LoneDocument(e)) => status # "raised"
            /\ \A k \in DOMAIN e \ {"rule"} :
                    (IsGetPolicies /\ args.doc = LoneDocument(Without(e, k)))
                        => status = "raised"

\* A load rejected the minimal entry of a synthesized rule type with its
\* one required field removed.
C7_Witness ==
    /\ IsGetPolicies /\ status = "raised"
    /\ \E i \in Synthesized(rules) :
            LET e == MinimalEntry(rules[i].name, rules[i].rule)
            IN  \E k \in DOMAIN e \ {"rule"} : args.doc = LoneDocument(Without(e, k))

(***************************************************************************)
(* C8                                                                      *)
(***************************************************************************)
\* C8: every constructor get_policies invokes is given, for each parameter
\* with a default that its entry omits, the declared default of its own rule
\* type, and is given nothing else that the entry does not hold; the
\* instance built has that default as its argument.
C8_OwnDefaults ==
    IsGetPolicies =>
        \A k \in 1..Len(constructed) :
            LET c == constructed[k]
                e == EntryAt(PlaceOf(c))
                cls == Get(rules, e["rule"].v)
                defaulted == {q \in SchemaParams(cls) : q.hasDefault}
            IN  /\ c.cls = cls.cls
                /\ \A q \in defaulted :
                        q.name \notin DOMAIN e =>
                            /\ q.name \in DOMAIN c.kwargs
                            /\ c.kwargs[q.name] = q.default
                            /\ status = "returned" =>
                                    retval[c.policy].rules[c.entry].args[q.name] = q.default
                /\ \A x \in DOMAIN c.kwargs \ DOMAIN e :
                        \E q \in defaulted : q.name = x /\ c.kwargs[x] = q.default

\* A rule was built from an entry omitting a field with a default while
\* another rule type declares another default.
C8_Witness ==
    /\ IsGetPolicies /\ status = "returned"
    /\ \E k \in 1..Len(constructed) :
            /\ "count" \notin DOMAIN EntryAt(PlaceOf(constructed[k]))
            /\ "count" \in DOMAIN constructed[k].kwargs
            /\ constructed[k].kwargs["count"] = I("5")
    /\ \E i \in 1..Len(rules) : rules[i].rule = KeepLatestNFiles

(***************************************************************************)
(* C9                                                                      *)
(***************************************************************************)
\* The rule r is the one built from the entry e.
BuiltFrom(r, e) ==
    /\ r.cls = Get(rules, e["rule"].v).cls
    /\ r.kind = "instance" => \A k \in DOMAIN e \ {"rule"} : r.args[k] = e[k]
    /\ r.kind = "class" => DOMAIN e = {"rule"}

\* C9: get_policies returns the policies in document order, each with as
\* many rules as the document gives it, the i-th rule built from the i-th
\* entry.
C9_OrderPreserved ==
    (IsGetPolicies /\ status = "returned") =>
        /\ Len(retval) = Len(DocPolicies)
        /\ \A i \in 1..Len(DocPolicies) :
                /\ retval[i].name = DocPolicies[i]["name"]
                /\ Len(retval[i].rules) = Len(DocPolicies[i]["rules"])
                /\ \A j \in 1..Len(DocPolicies[i]["rules"]) :
                        BuiltFrom(retval[i].rules[j], DocPolicies[i]["rules"][j])

\* A policy with two rules of different types was returned.
C9_Witness ==
    /\ IsGetPolicies /\ status = "returned"
    /\ \E i \in 1..Len(DocPolicies) :
            /\ Len(retval[i].rules) >= 2
            /\ retval[i].rules[1].cls # retval[i].rules[2].cls

(***************************************************************************)
(* C10                                                                     *)
(***************************************************************************)
AllFlagsGiven ==
    /\ Truthy(args.cli["_artifactory_server"])
    /\ Truthy(args.cli["_user"])
    /\ Truthy(args.cli["_password"])

\* C10: get_connection returns the triple, unchanged, exactly when the three
\* flags are non-empty; otherwise it prints one line naming a flag that is
\* missing, calls help() once and exits with status 1, returning nothing.
C10_ConnectionOrExit ==
    IsGetConnection =>
        /\ status = "returned" <=> AllFlagsGiven
        /\ status = "returned" =>
                /\ retval = <<args.cli["_artifactory_server"], args.cli["_user"],
                              args.cli["_password"]>>
                /\ helped = 0 /\ stdout = <<>>
        /\ ~AllFlagsGiven =>
                /\ status = "exit"
                /\ exitCode # 0
                /\ helped = 1
                /\ retval = NoValue
                /\ Len(stdout) = 1
                /\ \E f \in Range(RequiredFlags) :
                        stdout[1].flag = f.flag /\ ~Truthy(args.cli[f.field])

\* Only the password is missing.
C10_Witness ==
    /\ IsGetConnection /\ status = "exit" /\ helped = 1
    /\ Truthy(args.cli["_artifactory_server"]) /\ Truthy(args.cli["_user"])
    /\ args.cli["_password"] = None
    /\ stdout[1].flag = "--password"

====
